---- MODULE Spec2Model ----
(***************************************************************************)
(* A model of the pingfood admin backend: the read-path normalization of   *)
(* stored documents (admin.py: handle_non_utf8, convert_objectid_to_str),  *)
(* the Order schema's reference-field validators, and the CRUD handlers of *)
(* admin.py and main.py over a document store.                             *)
(*                                                                         *)
(* Values are tagged pairs <<tag, payload>>:                               *)
(*   "oid"   a bson ObjectId, with its bytes (a sequence of 0..255)        *)
(*   "bytes" a Python bytes / bson Binary, with its bytes                  *)
(*   "str"   a Python str, with its code points                            *)
(*   "int", "bool", "date", "none"   other scalars                         *)
(*   "dict"  a mapping, with a function from field names to values         *)
(*   "list"  a sequence, with a sequence of values                         *)
(***************************************************************************)
EXTENDS Integers, Sequences, FiniteSets, TLC

VARIABLES
    nobj,   \* normalization: the object handed to convert_objectid_to_str
    nres,   \* normalization: its result (NoValue before the call)
    nres2,  \* normalization: the result of a repeated call on the same input
    npc,    \* normalization: "input" before the call, "done" after it, "again" after the repeat
    scope,  \* the collections this run's requests address
    store,  \* the database: collection name -> its documents, in insertion order
    nextId, \* how many ObjectIds the store has assigned
    req,    \* the last request handled
    resp,   \* its response
    procs   \* request id -> the request in progress: its position and the storage calls it made

nvars == <<nobj, nres, nres2, npc>>
dbvars == <<scope, store, nextId, req, resp, procs>>
vars == <<nobj, nres, nres2, npc, scope, store, nextId, req, resp, procs>>

(***************************************************************************)
(* Value constructors                                                      *)
(***************************************************************************)
NoValue == <<"none", <<>>>>
Tag(value) == value[1]
Val(value) == value[2]
VOid(b) == <<"oid", b>>
VBytes(b) == <<"bytes", b>>
VStr(s) == <<"str", s>>
VInt(n) == <<"int", <<n>>>>
VBool(b) == <<"bool", <<IF b THEN 1 ELSE 0>>>>
VDict(f) == <<"dict", f>>
VList(s) == <<"list", s>>

Min(a, b) == IF a < b THEN a ELSE b

(***************************************************************************)
(* base64.b64encode(value).decode('utf-8'): the standard alphabet with '=' *)
(* padding, as the text's code points.                                     *)
(***************************************************************************)
B64Char(i) ==
    IF i < 26 THEN 65 + i
    ELSE IF i < 52 THEN 97 + (i - 26)
    ELSE IF i < 62 THEN 48 + (i - 52)
    ELSE IF i = 62 THEN 43 ELSE 47

B64Pad == 61

RECURSIVE b64encode(_)
b64encode(b) ==
    IF Len(b) = 0 THEN <<>>
    ELSE IF Len(b) = 1 THEN
        <<B64Char(b[1] \div 4), B64Char((b[1] % 4) * 16), B64Pad, B64Pad>>
    ELSE IF Len(b) = 2 THEN
        <<B64Char(b[1] \div 4), B64Char((b[1] % 4) * 16 + b[2] \div 16),
          B64Char((b[2] % 16) * 4), B64Pad>>
    ELSE
        <<B64Char(b[1] \div 4), B64Char((b[1] % 4) * 16 + b[2] \div 16),
          B64Char((b[2] % 16) * 4 + b[3] \div 64), B64Char(b[3] % 64)>>
        \o b64encode(SubSeq(b, 4, Len(b)))

(***************************************************************************)
(* bytes.decode('utf-8'), strict: Utf8Len(b) is the length of the first    *)
(* well-formed UTF-8 sequence of b (0 when there is none: a stray          *)
(* continuation byte, an overlong form, a surrogate, a value above         *)
(* U+10FFFF, a truncated sequence).                                        *)
(***************************************************************************)
IsCont(x) == x >= 128 /\ x <= 191

Utf8Len(b) ==
    LET n == Len(b)
        b1 == b[1]
    IN  IF n = 0 THEN 0
        ELSE IF b1 < 128 THEN 1
        ELSE IF b1 >= 194 /\ b1 <= 223
            THEN IF n >= 2 /\ IsCont(b[2]) THEN 2 ELSE 0
        ELSE IF b1 >= 224 /\ b1 <= 239
            THEN IF /\ n >= 3
                    /\ IsCont(b[2])
                    /\ IsCont(b[3])
                    /\ (b1 = 224 => b[2] >= 160)
                    /\ (b1 = 237 => b[2] <= 159)
                 THEN 3 ELSE 0
        ELSE IF b1 >= 240 /\ b1 <= 244
            THEN IF /\ n >= 4
                    /\ IsCont(b[2])
                    /\ IsCont(b[3])
                    /\ IsCont(b[4])
                    /\ (b1 = 240 => b[2] >= 144)
                    /\ (b1 = 244 => b[2] <= 143)
                 THEN 4 ELSE 0
        ELSE 0

Utf8Point(b, k) ==
    IF k = 1 THEN b[1]
    ELSE IF k = 2 THEN (b[1] - 192) * 64 + (b[2] - 128)
    ELSE IF k = 3 THEN (b[1] - 224) * 4096 + (b[2] - 128) * 64 + (b[3] - 128)
    ELSE (b[1] - 240) * 262144 + (b[2] - 128) * 4096 + (b[3] - 128) * 64 + (b[4] - 128)

RECURSIVE Utf8Valid(_)
Utf8Valid(b) ==
    IF Len(b) = 0 THEN TRUE
    ELSE LET k == Utf8Len(b)
         IN  k > 0 /\ Utf8Valid(SubSeq(b, k + 1, Len(b)))

\* The decoded text of a byte sequence that is valid UTF-8.
RECURSIVE Utf8Decode(_)
Utf8Decode(b) ==
    IF Len(b) = 0 THEN <<>>
    ELSE LET k == Utf8Len(b)
         IN  <<Utf8Point(b, k)>> \o Utf8Decode(SubSeq(b, k + 1, Len(b)))

(***************************************************************************)
(* str(ObjectId): the lowercase hex of its bytes.                          *)
(***************************************************************************)
HexDigit(n) == IF n < 10 THEN 48 + n ELSE 87 + n

RECURSIVE hex(_)
hex(b) ==
    IF Len(b) = 0 THEN <<>>
    ELSE <<HexDigit(b[1] \div 16), HexDigit(b[1] % 16)>> \o hex(Tail(b))

ObjectIdStr(value) == VStr(hex(Val(value)))

\* ObjectId(s): the identifier a string of hex digits names.
HexVal(c) == IF c >= 48 /\ c <= 57 THEN c - 48 ELSE IF c >= 97 /\ c <= 102 THEN c - 87 ELSE -1

RECURSIVE unhex(_)
unhex(s) ==
    IF Len(s) < 2 THEN <<>>
    ELSE <<HexVal(s[1]) * 16 + HexVal(s[2])>> \o unhex(SubSeq(s, 3, Len(s)))

(***************************************************************************)
(* handle_non_utf8: bytes are base64-encoded before anything else; the     *)
(* decode attempt is reached only by a value that is not bytes, and of the *)
(* stored value types none has a decode method (AttributeError), so every  *)
(* other value is returned as it is.                                       *)
(***************************************************************************)
HasDecode(value) == FALSE

handle_non_utf8_NoBytesCheck(value) ==
    IF Tag(value) = "bytes" /\ Utf8Valid(Val(value)) THEN VStr(Utf8Decode(Val(value)))
    ELSE value

handle_non_utf8(value) ==
    IF Tag(value) = "bytes" THEN VStr(b64encode(Val(value)))
    ELSE IF HasDecode(value) /\ Utf8Valid(Val(value)) THEN VStr(Utf8Decode(Val(value)))
    ELSE value

(***************************************************************************)
(* convert_objectid_to_str: a mapping's values are recursed into (dict,    *)
(* list), stringified (ObjectId) or handed to handle_non_utf8; a list's    *)
(* elements are each converted by the function itself; anything else goes  *)
(* to handle_non_utf8.                                                     *)
(***************************************************************************)
DictValue_OidUnconverted(value, rec) ==
    IF Tag(value) \in {"dict", "list"} THEN rec
    ELSE handle_non_utf8(value)

DictValue(value, rec) ==
    IF Tag(value) \in {"dict", "list"} THEN rec
    ELSE IF Tag(value) = "oid" THEN ObjectIdStr(value)
    ELSE handle_non_utf8(value)

RECURSIVE convert_objectid_to_str(_)
convert_objectid_to_str(obj) ==
    IF Tag(obj) = "dict" THEN
        VDict([key \in DOMAIN Val(obj) |->
                DictValue(Val(obj)[key],
                          IF Tag(Val(obj)[key]) \in {"dict", "list"}
                          THEN convert_objectid_to_str(Val(obj)[key])
                          ELSE NoValue)])
    ELSE IF Tag(obj) = "list" THEN
        VList([i \in 1..Len(Val(obj)) |-> convert_objectid_to_str(Val(obj)[i])])
    ELSE handle_non_utf8(obj)

(***************************************************************************)
(* base64.b64decode(s): characters outside the alphabet are discarded, and *)
(* what is left must be whole quads (binascii.Error otherwise). The result *)
(* is [ok |-> whether it decoded, v |-> the bytes].                        *)
(***************************************************************************)
B64Val(c) ==
    IF c >= 65 /\ c <= 90 THEN c - 65
    ELSE IF c >= 97 /\ c <= 122 THEN c - 71
    ELSE IF c >= 48 /\ c <= 57 THEN c + 4
    ELSE IF c = 43 THEN 62
    ELSE IF c = 47 THEN 63
    ELSE -1

RECURSIVE B64Quads(_)
B64Quads(s) ==
    IF Len(s) = 0 THEN <<>>
    ELSE LET v1 == B64Val(s[1])
             v2 == B64Val(s[2])
             v3 == B64Val(s[3])
             v4 == B64Val(s[4])
         IN  IF s[3] = B64Pad THEN <<v1 * 4 + v2 \div 16>>
             ELSE IF s[4] = B64Pad
                 THEN <<v1 * 4 + v2 \div 16, (v2 % 16) * 16 + v3 \div 4>>
             ELSE <<v1 * 4 + v2 \div 16, (v2 % 16) * 16 + v3 \div 4, (v3 % 4) * 64 + v4>>
                  \o B64Quads(SubSeq(s, 5, Len(s)))

b64decode(s) ==
    LET kept == SelectSeq(s, LAMBDA c : B64Val(c) >= 0 \/ c = B64Pad)
    IN  IF Len(kept) % 4 # 0 \/ (Len(kept) > 0 /\ (kept[1] = B64Pad \/ kept[2] = B64Pad))
        THEN [ok |-> FALSE, v |-> <<>>]
        ELSE [ok |-> TRUE, v |-> B64Quads(kept)]

(***************************************************************************)
(* The inputs of the normalization: byte sequences over ByteSample up to   *)
(* MaxLen bytes, mappings holding two identifiers of OidSpace, and         *)
(* document trees nested MaxDepth deep over TreeScalars.                   *)
(***************************************************************************)
MaxLen == 3
MaxDepth == 3
OidLen == 12

ByteSample == {1, 2, 3, 65, 128, 130, 169, 172, 195, 226, 254, 255}

AllBytes == UNION {[1..n -> ByteSample] : n \in 0..MaxLen}

OidSpace ==
    {[i \in 1..OidLen |-> IF i = k THEN b ELSE 0] : k \in {1, 6, OidLen}, b \in {0, 1, 16, 171, 255}}

OidA == [i \in 1..OidLen |-> IF i = 1 THEN 101 ELSE IF i = OidLen THEN 171 ELSE 0]

TreeScalars ==
    {VOid(OidA), VBytes(<<255, 254>>), VBytes(<<1, 2, 3>>), VStr(<<65>>), VInt(1)}

RECURSIVE Trees(_)
Trees(d) ==
    IF d = 0 THEN TreeScalars
    ELSE LET T == Trees(d - 1)
         IN  TreeScalars
             \cup {VList(<<x>>) : x \in T}
             \cup {VList(<<x, s>>) : x \in T, s \in TreeScalars}
             \cup {VDict("a" :> x) : x \in T}
             \cup {VDict(("a" :> x) @@ ("b" :> s)) : x \in T, s \in TreeScalars}

NormInputs ==
    {VBytes(b) : b \in AllBytes}
    \cup {VDict(("a" :> VOid(o1)) @@ ("b" :> VOid(o2))) : o1 \in OidSpace, o2 \in OidSpace}
    \cup Trees(MaxDepth)

(***************************************************************************)
(* The entity schemas of admin.py (pydantic models): each field with its   *)
(* type and whether the payload must carry it. Only a field declared with  *)
(* a default (= None) may be left out. The collections of main.py, keyed   *)
(* by the store's _id, follow.                                             *)
(***************************************************************************)
AdminKinds == {"Branch", "userData", "menu", "orders", "restaurants"}
MainKinds == {"items", "menus", "customers", "branches", "inventory"}

Schema(kind) ==
    CASE kind = "restaurants" ->
           << <<"restaurants_id", "int", TRUE>>, <<"res_name", "str", TRUE>>,
              <<"res_email", "str", TRUE>>, <<"res_website", "str", TRUE>>,
              <<"res_desc", "str", TRUE>>, <<"res_added", "date", FALSE>>,
              <<"res_active", "bool", TRUE>>, <<"city_id", "str", TRUE>>,
              <<"state_id", "str", TRUE>> >>
      [] kind = "Branch" ->
           << <<"branch_id", "int", TRUE>>, <<"branch_name", "str", TRUE>>,
              <<"branch_email", "str", TRUE>>, <<"branch_phone", "str", TRUE>>,
              <<"branch_website", "str", TRUE>>, <<"branch_desc", "str", TRUE>>,
              <<"branch_added", "date", FALSE>>, <<"branch_active", "bool", TRUE>>,
              <<"restaurants_id", "str", TRUE>>, <<"address_id", "str", TRUE>> >>
      [] kind = "orders" ->
           << <<"order_id", "str", TRUE>>, <<"customer", "dict", TRUE>>,
              <<"order_type", "str", TRUE>>, <<"store", "dict", TRUE>>,
              <<"items", "list", TRUE>>, <<"total_price", "float", TRUE>>,
              <<"payment_method", "str", TRUE>>, <<"order_status", "str", TRUE>>,
              <<"order_date", "date", TRUE>> >>
      [] kind = "userData" ->
           << <<"id", "int", TRUE>>, <<"firstname", "str", TRUE>>,
              <<"lastname", "str", TRUE>>, <<"email", "str", TRUE>>,
              <<"phone", "str", TRUE>>, <<"password", "str", TRUE>>,
              <<"address_street", "str", TRUE>>, <<"address_city", "str", TRUE>>,
              <<"address_state", "str", TRUE>>, <<"address_zip", "int", TRUE>>,
              <<"user_active", "bool", TRUE>>, <<"role", "str", TRUE>> >>
      [] kind = "menu" ->
           << <<"item_id", "str", TRUE>>, <<"name", "str", TRUE>>,
              <<"description", "str", TRUE>>, <<"price", "float", TRUE>>,
              <<"category", "str", TRUE>>, <<"available", "bool", TRUE>> >>
      [] kind = "items" ->
           << <<"name", "str", TRUE>>, <<"description", "str", TRUE>>,
              <<"price", "float", TRUE>> >>
      [] kind = "menus" ->
           << <<"name", "str", TRUE>>, <<"items", "list", TRUE>> >>
      [] kind = "customers" ->
           << <<"name", "str", TRUE>>, <<"email", "str", TRUE>>,
              <<"phone", "str", TRUE>> >>
      [] kind = "branches" ->
           << <<"name", "str", TRUE>>, <<"location", "str", TRUE>>,
              <<"contact_number", "str", TRUE>> >>
      [] kind = "inventory" ->
           << <<"item_name", "str", TRUE>>, <<"quantity", "int", TRUE>> >>

Kinds == AdminKinds \cup MainKinds
Collections == Kinds \cup {"users"}

\* The schemas as tables: the declared fields of a kind, those a payload must
\* carry, and each field's type.
FieldTable == [kind \in Kinds |-> {Schema(kind)[i][1] : i \in 1..Len(Schema(kind))}]
RequiredTable ==
    [kind \in Kinds |->
        {Schema(kind)[i][1] : i \in {j \in 1..Len(Schema(kind)) : Schema(kind)[j][3]}}]
TypeTable ==
    [kind \in Kinds |->
        [f \in FieldTable[kind] |->
            Schema(kind)[CHOOSE j \in 1..Len(Schema(kind)) : Schema(kind)[j][1] = f][2]]]

Fields(kind) == FieldTable[kind]
RequiredFields(kind) == RequiredTable[kind]
FieldType(kind, f) == IF f \in Fields(kind) THEN TypeTable[kind][f] ELSE "oid"

\* The natural key of each kind: the field its routes look documents up by.
KeyField(kind) ==
    CASE kind = "Branch" -> "branch_id"
      [] kind = "userData" -> "id"
      [] kind = "menu" -> "item_id"
      [] kind = "orders" -> "order_id"
      [] kind = "restaurants" -> "restaurants_id"
      [] OTHER -> "_id"

\* The field that create_branch / create_restaurants stamps with now() when unset.
StampField(kind) ==
    CASE kind = "Branch" -> "branch_added"
      [] kind = "restaurants" -> "res_added"
      [] OTHER -> ""

\* The status of "<entity> not found" on DELETE, and of a PUT that modified nothing.
DeleteNotFoundStatus(kind) == IF kind \in {"menu", "orders"} THEN 404 ELSE 400
UpdateFailedStatus(kind) == IF kind \in {"menu", "orders"} THEN 404 ELSE 400

(***************************************************************************)
(* Request validation (pydantic). A payload is a function from field names *)
(* to values. The Order model's two validators run around the field        *)
(* validation.                                                             *)
(***************************************************************************)
RefFields == {"restaurants_id", "address_id"}

\* Order.convert_binary_fields_to_base64 (mode='before'): on the raw payload, a
\* reference field holding a Binary becomes its base64 text.
convert_binary_fields_to_base64(values) ==
    [f \in DOMAIN values |->
        IF f \in RefFields /\ Tag(values[f]) = "bytes"
        THEN VStr(b64encode(Val(values[f])))
        ELSE values[f]]

\* What iterating a model instance yields: its (field name, value) pairs.
ModelItems(model) == {<<f, model[f]>> : f \in DOMAIN model}

\* `name in values` where values is the validated model instance (what a
\* mode='after' validator is given): membership by iteration, and a name is
\* never equal to a (field name, value) pair.
NameIn(name, model) == \E item \in ModelItems(model) : item = <<name>>

\* Order.convert_base64_to_binary (mode='after'): decodes a reference field held
\* as text, when `'<field>' in values` finds it.
convert_base64_to_binary(model) ==
    [f \in DOMAIN model |->
        IF f \in RefFields /\ NameIn(f, model) /\ Tag(model[f]) = "str"
        THEN VBytes(b64decode(Val(model[f])).v)
        ELSE model[f]]

\* The payload passes validation when it carries every required field (the
\* payloads drawn here are well-typed).
Validates(kind, body) == RequiredFields(kind) \subseteq DOMAIN body

\* The validated model's fields: the declared fields only (a payload's other
\* fields are ignored), an unset optional field at its default None.
ModelOf(kind, body) ==
    LET raw == IF kind = "orders" THEN convert_binary_fields_to_base64(body) ELSE body
        model == [f \in Fields(kind) |-> IF f \in DOMAIN raw THEN raw[f] ELSE NoValue]
    IN  IF kind = "orders" THEN convert_base64_to_binary(model) ELSE model

\* model.dict(exclude_unset=True): the declared fields the payload carried.
DictExcludeUnset(kind, body) ==
    LET model == ModelOf(kind, body)
    IN  [f \in Fields(kind) \cap DOMAIN body |-> model[f]]

(***************************************************************************)
(* The document store adapter (admin.py: class Database) over one          *)
(* collection's documents. `fault` is a storage fault during the call.     *)
(***************************************************************************)
NewObjectId(n) == [i \in 1..OidLen |-> IF i = OidLen THEN n ELSE 0]

Matches(doc, field, value) == field \in DOMAIN doc /\ doc[field] = value

\* The first document matching {field: value}, 0 when there is none.
FirstMatch(docs, field, value) ==
    IF \E i \in 1..Len(docs) : Matches(docs[i], field, value)
    THEN CHOOSE i \in 1..Len(docs) :
            /\ Matches(docs[i], field, value)
            /\ \A j \in 1..(i - 1) : ~Matches(docs[j], field, value)
    ELSE 0

RemoveAt(docs, i) == SubSeq(docs, 1, i - 1) \o SubSeq(docs, i + 1, Len(docs))

\* collection.insert_one(document): the store assigns _id and appends.
InsertDoc(docs, document, n) == Append(docs, document @@ ("_id" :> VOid(NewObjectId(n))))

find_one_FaultIgnored(docs, field, value, fault) ==
    LET i == FirstMatch(docs, field, value)
    IN  IF i = 0 THEN NoValue
        ELSE convert_objectid_to_str(VDict(docs[i]))

\* Database.find_one: the normalized document, None when absent or on a fault.
find_one(docs, field, value, fault) ==
    LET i == FirstMatch(docs, field, value)
    IN  IF fault \/ i = 0 THEN NoValue
        ELSE convert_objectid_to_str(VDict(docs[i]))

\* {"$set": update_data} on a document.
SetFields(doc, update_data) ==
    [f \in DOMAIN doc \cup DOMAIN update_data |->
        IF f \in DOMAIN update_data THEN update_data[f] ELSE doc[f]]

\* Database.update_one: [docs, ok, modified_count]; ok is FALSE for the {} a
\* fault yields. modified_count is 1 when a document matched and changed.
update_one(docs, field, value, update_data, fault) ==
    LET i == FirstMatch(docs, field, value)
    IN  IF fault THEN [docs |-> docs, ok |-> FALSE, modified_count |-> 0]
        ELSE IF i = 0 THEN [docs |-> docs, ok |-> TRUE, modified_count |-> 0]
        ELSE LET new == SetFields(docs[i], update_data)
             IN  [docs |-> [docs EXCEPT ![i] = new], ok |-> TRUE,
                  modified_count |-> IF new = docs[i] THEN 0 ELSE 1]

\* Database.delete_one: [docs, ok, deleted_count].
delete_one(docs, field, value, fault) ==
    LET i == FirstMatch(docs, field, value)
    IN  IF fault THEN [docs |-> docs, ok |-> FALSE, deleted_count |-> 0]
        ELSE IF i = 0 THEN [docs |-> docs, ok |-> TRUE, deleted_count |-> 0]
        ELSE [docs |-> RemoveAt(docs, i), ok |-> TRUE, deleted_count |-> 1]

(***************************************************************************)
(* Requests and responses. A request records what was asked; a response is *)
(* the HTTP status, what it says, and the body's payload.                  *)
(***************************************************************************)
Request(op, kind, key, body, faults) ==
    [op |-> op, kind |-> kind, key |-> key, body |-> body, faults |-> faults]

Response(status, detail, body) == [status |-> status, detail |-> detail, body |-> body]

NoRequest == Request("none", "", NoValue, <<>>, <<FALSE, FALSE>>)
NoResponse == Response(0, "", NoValue)

\* datetime.datetime.now()
Now == <<"date", <<1>>>>

(***************************************************************************)
(* The handlers of admin.py, one action per route, for every entity kind.  *)
(* A payload that fails validation is answered 422 by the framework and    *)
(* the handler does not run.                                               *)
(***************************************************************************)
MaxDocs == 2

CreateEntity_UniqueKey(kind, body, fault) ==
    /\ req' = Request("create", kind, NoValue, body, <<fault, FALSE>>)
    /\ IF ~Validates(kind, body) THEN
           /\ resp' = Response(422, "validation_error", NoValue)
           /\ UNCHANGED <<store, nextId>>
       ELSE IF fault THEN
           /\ resp' = Response(500, "internal_error", NoValue)
           /\ UNCHANGED <<store, nextId>>
       ELSE IF FirstMatch(store[kind], KeyField(kind), body[KeyField(kind)]) # 0 THEN
           /\ resp' = Response(400, "create_failed", NoValue)
           /\ UNCHANGED <<store, nextId>>
       ELSE
           /\ nextId < MaxDocs
           /\ nextId' = nextId + 1
           /\ store' = [store EXCEPT ![kind] = InsertDoc(@, ModelOf(kind, body), nextId + 1)]
           /\ resp' = Response(200, "created", body[KeyField(kind)])

\* create_branch, create_user, create_menu_item, create_order, create_restaurants
CreateEntity(kind, body, fault) ==
    LET model == ModelOf(kind, body)
        stamp == StampField(kind)
        data == IF stamp # "" /\ model[stamp] = NoValue
                THEN [model EXCEPT ![stamp] = Now]
                ELSE model
    IN  /\ req' = Request("create", kind, NoValue, body, <<fault, FALSE>>)
        /\ IF ~Validates(kind, body) THEN
               /\ resp' = Response(422, "validation_error", NoValue)
               /\ UNCHANGED <<store, nextId>>
           ELSE IF fault THEN
               /\ resp' = Response(500, "internal_error", NoValue)
               /\ UNCHANGED <<store, nextId>>
           ELSE
               /\ nextId < MaxDocs
               /\ nextId' = nextId + 1
               /\ store' = [store EXCEPT ![kind] = InsertDoc(@, data, nextId + 1)]
               /\ resp' = Response(200, "created", data[KeyField(kind)])

GetEntity_KeyAsText(kind, key, fault) ==
    LET result == find_one(store[kind], KeyField(kind), key, fault)
        k == KeyField(kind)
        shown == IF Tag(Val(result)[k]) = "int"
                 THEN VDict([Val(result) EXCEPT ![k] = VStr(<<48 + Val(@)[1]>>)])
                 ELSE result
    IN  /\ req' = Request("get", kind, key, <<>>, <<fault, FALSE>>)
        /\ resp' = IF result # NoValue
                   THEN Response(200, "found", shown)
                   ELSE Response(404, "not_found", NoValue)
        /\ UNCHANGED <<store, nextId>>

\* get_branch, get_user, get_menu_item, get_order, get_restaurants
GetEntity(kind, key, fault) ==
    LET result == find_one(store[kind], KeyField(kind), key, fault)
    IN  /\ req' = Request("get", kind, key, <<>>, <<fault, FALSE>>)
        /\ resp' = IF result # NoValue
                   THEN Response(200, "found", result)
                   ELSE Response(404, "not_found", NoValue)
        /\ UNCHANGED <<store, nextId>>

\* update_branch, update_user, update_menu_item, update_order, update_restaurants
UpdateEntity(kind, key, body, fault) ==
    LET data == DictExcludeUnset(kind, body)
        result == update_one(store[kind], KeyField(kind), key, data, fault)
    IN  /\ req' = Request("update", kind, key, body, <<fault, FALSE>>)
        /\ UNCHANGED nextId
        /\ IF ~Validates(kind, body) THEN
               /\ resp' = Response(422, "validation_error", NoValue)
               /\ UNCHANGED store
           ELSE IF DOMAIN data = {} THEN
               /\ resp' = Response(400, "no_data", NoValue)
               /\ UNCHANGED store
           ELSE
               /\ store' = [store EXCEPT ![kind] = result.docs]
               /\ resp' = IF result.ok /\ result.modified_count > 0
                          THEN Response(200, "updated", NoValue)
                          ELSE Response(UpdateFailedStatus(kind),
                                        IF UpdateFailedStatus(kind) = 404
                                        THEN "not_found" ELSE "update_failed",
                                        NoValue)

DeleteEntity_NoExistenceCheck(kind, key, fault1, fault2) ==
    LET result == delete_one(store[kind], KeyField(kind), key, fault2)
    IN  /\ req' = Request("delete", kind, key, <<>>, <<fault1, fault2>>)
        /\ UNCHANGED nextId
        /\ store' = [store EXCEPT ![kind] = result.docs]
        /\ resp' = IF result.ok
                   THEN Response(200, "deleted", NoValue)
                   ELSE Response(400, "delete_failed", NoValue)

DeleteEntity_CascadeBranches(kind, key, fault1, fault2) ==
    LET found == find_one(store[kind], KeyField(kind), key, fault1)
        result == delete_one(store[kind], KeyField(kind), key, fault2)
        Owned(doc) == kind = "restaurants" /\ Tag(key) = "int"
                      /\ doc["restaurants_id"] = VStr(<<48 + Val(key)[1]>>)
        Kept(doc) == ~Owned(doc)
    IN  /\ req' = Request("delete", kind, key, <<>>, <<fault1, fault2>>)
        /\ UNCHANGED nextId
        /\ IF found = NoValue THEN
               /\ resp' = Response(DeleteNotFoundStatus(kind), "not_found", NoValue)
               /\ UNCHANGED store
           ELSE
               /\ store' = [store EXCEPT ![kind] = result.docs,
                                         !["Branch"] = IF kind = "restaurants"
                                                       THEN SelectSeq(@, Kept) ELSE @]
               /\ resp' = IF result.ok /\ result.deleted_count > 0
                          THEN Response(200, "deleted", NoValue)
                          ELSE Response(400, "delete_failed", NoValue)

\* delete_branch, delete_user, delete_menu_item, delete_order, delete_restaurants
DeleteEntity(kind, key, fault1, fault2) ==
    LET found == find_one(store[kind], KeyField(kind), key, fault1)
        result == delete_one(store[kind], KeyField(kind), key, fault2)
    IN  /\ req' = Request("delete", kind, key, <<>>, <<fault1, fault2>>)
        /\ UNCHANGED nextId
        /\ IF found = NoValue THEN
               /\ resp' = Response(DeleteNotFoundStatus(kind), "not_found", NoValue)
               /\ UNCHANGED store
           ELSE
               /\ store' = [store EXCEPT ![kind] = result.docs]
               /\ resp' = IF result.ok /\ result.deleted_count > 0
                          THEN Response(200, "deleted", NoValue)
                          ELSE Response(400, "delete_failed", NoValue)

ListCap == 200

to_list_Uncapped(docs, length) == docs

\* cursor.to_list(length): at most `length` documents, in the store's order.
to_list(docs, length) == SubSeq(docs, 1, Min(Len(docs), length))

AsDicts(docs) == [i \in 1..Len(docs) |-> VDict(docs[i])]

\* get_all_branches, get_all_users, get_all_menu_items, get_all_orders,
\* get_all_restaurantss. A storage fault is not caught here.
ListEntities(kind, fault) ==
    /\ req' = Request("list", kind, NoValue, <<>>, <<fault, FALSE>>)
    /\ resp' = IF fault THEN Response(500, "internal_error", NoValue)
               ELSE Response(200, "list",
                        convert_objectid_to_str(VList(AsDicts(to_list(store[kind], ListCap)))))
    /\ UNCHANGED <<store, nextId>>

(***************************************************************************)
(* The handlers of main.py over its _id-keyed collections (items, menus,   *)
(* customers, branches, inventory). ObjectId(item_id) raises on a string   *)
(* that is not an identifier, and neither that nor a storage fault is      *)
(* caught: the framework answers 500. response_model keeps the declared    *)
(* fields of what the handler returns.                                     *)
(***************************************************************************)
ParseObjectId(s) ==
    [ok |-> Len(s) = 2 * OidLen /\ \A i \in 1..Len(s) : HexVal(s[i]) >= 0,
     v |-> VOid(unhex(s))]

ResponseModel(kind, doc) == VDict([f \in Fields(kind) |-> doc[f]])

\* create_item, create_menu, create_customer, create_branch, create_inventory
MainCreate(kind, body, fault) ==
    /\ req' = Request("create", kind, NoValue, body, <<fault, FALSE>>)
    /\ IF ~Validates(kind, body) THEN
           /\ resp' = Response(422, "validation_error", NoValue)
           /\ UNCHANGED <<store, nextId>>
       ELSE IF fault THEN
           /\ resp' = Response(500, "internal_error", NoValue)
           /\ UNCHANGED <<store, nextId>>
       ELSE
           /\ nextId < MaxDocs
           /\ nextId' = nextId + 1
           /\ store' = [store EXCEPT ![kind] = InsertDoc(@, ModelOf(kind, body), nextId + 1)]
           /\ resp' = Response(200, "created", ResponseModel(kind, ModelOf(kind, body)))

\* get_item, get_menu, get_customer, get_branch, get_inventory
MainGet(kind, id, fault) ==
    LET oid == ParseObjectId(id)
        i == FirstMatch(store[kind], "_id", oid.v)
    IN  /\ req' = Request("get", kind, VStr(id), <<>>, <<fault, FALSE>>)
        /\ resp' = IF ~oid.ok \/ fault THEN Response(500, "internal_error", NoValue)
                   ELSE IF i = 0 THEN Response(404, "not_found", NoValue)
                   ELSE Response(200, "found", ResponseModel(kind, store[kind][i]))
        /\ UNCHANGED <<store, nextId>>

\* update_item, update_menu, update_customer, update_branch, update_inventory:
\* find_one_and_update with {"$set": item.dict()}.
MainUpdate(kind, id, body, fault) ==
    LET oid == ParseObjectId(id)
        i == FirstMatch(store[kind], "_id", oid.v)
        new == SetFields(store[kind][i], ModelOf(kind, body))
    IN  /\ req' = Request("update", kind, VStr(id), body, <<fault, FALSE>>)
        /\ UNCHANGED nextId
        /\ IF ~Validates(kind, body) THEN
               /\ resp' = Response(422, "validation_error", NoValue)
               /\ UNCHANGED store
           ELSE IF ~oid.ok \/ fault THEN
               /\ resp' = Response(500, "internal_error", NoValue)
               /\ UNCHANGED store
           ELSE IF i = 0 THEN
               /\ resp' = Response(404, "not_found", NoValue)
               /\ UNCHANGED store
           ELSE
               /\ store' = [store EXCEPT ![kind][i] = new]
               /\ resp' = Response(200, "updated", ResponseModel(kind, new))

\* delete_item, delete_menu, delete_customer, delete_branch, delete_inventory:
\* delete_one, then 404 when deleted_count is 0.
MainDelete(kind, id, fault) ==
    LET oid == ParseObjectId(id)
        result == delete_one(store[kind], "_id", oid.v, FALSE)
    IN  /\ req' = Request("delete", kind, VStr(id), <<>>, <<fault, FALSE>>)
        /\ UNCHANGED nextId
        /\ IF ~oid.ok \/ fault THEN
               /\ resp' = Response(500, "internal_error", NoValue)
               /\ UNCHANGED store
           ELSE
               /\ store' = [store EXCEPT ![kind] = result.docs]
               /\ resp' = IF result.deleted_count = 0
                          THEN Response(404, "not_found", NoValue)
                          ELSE Response(200, "deleted", NoValue)

(***************************************************************************)
(* The requests drawn: two keys per kind, payloads that are complete (with *)
(* or without the optional timestamp), empty, or carry one field only; two *)
(* values of one text field; a storage fault or none at each storage call. *)
(***************************************************************************)
KeyIds == {1, 2}
Variants == {1, 2}

KeyValue(kind, k) ==
    IF FieldType(kind, KeyField(kind)) = "int" THEN VInt(k) ELSE VStr(<<48 + k>>)


VaryField(kind) ==
    CASE kind = "Branch" -> "branch_name"
      [] kind = "userData" -> "firstname"
      [] kind = "orders" -> "order_status"
      [] kind = "restaurants" -> "res_name"
      [] kind = "inventory" -> "item_name"
      [] OTHER -> "name"

Sample(type) ==
    CASE type = "int" -> VInt(7)
      [] type = "str" -> VStr(<<120>>)
      [] type = "bool" -> VBool(TRUE)
      [] type = "float" -> <<"float", <<10>>>>
      [] type = "date" -> <<"date", <<0>>>>
      [] type = "dict" -> VDict("name" :> VStr(<<120>>))
      [] type = "list" -> VList(<<VDict("name" :> VStr(<<120>>))>>)

FullBody(kind, k, variant) ==
    [f \in Fields(kind) |->
        IF f = KeyField(kind) THEN KeyValue(kind, k)
        ELSE IF f = VaryField(kind) THEN VStr(<<64 + variant>>)
        ELSE Sample(FieldType(kind, f))]

Without(body, fields) == [f \in DOMAIN body \ fields |-> body[f]]

EmptyBody == [f \in {} |-> NoValue]

BodyTable ==
    [kind \in Kinds |->
        LET full == {FullBody(kind, k, variant) : k \in KeyIds, variant \in Variants}
        IN  full
            \cup {Without(b, {StampField(kind)}) : b \in full}
            \cup {EmptyBody}
            \cup {VaryField(kind) :> VStr(<<64 + variant>>) : variant \in Variants}]

Bodies(kind) == BodyTable[kind]

KeyTable == [kind \in Kinds |-> {KeyValue(kind, k) : k \in KeyIds}]

KeysOf(kind) == KeyTable[kind]

\* The identifier strings of main.py's routes: of the identifiers the store can
\* assign, of one it never assigns, and one that is no identifier.
IdStrings == {hex(NewObjectId(n)) : n \in 0..MaxDocs} \cup {<<120, 121, 122>>}

IdleNorm ==
    /\ nobj = NoValue
    /\ nres = NoValue
    /\ nres2 = NoValue
    /\ npc = "idle"

IdleDb ==
    /\ scope = {}
    /\ store = [c \in Collections |-> <<>>]
    /\ nextId = 0
    /\ req = NoRequest
    /\ resp = NoResponse
    /\ procs = <<>>

\* A run addresses one entity kind: a handler reads and writes the collection of
\* its own kind only.
Scopes == {{kind} : kind \in Kinds}

Init ==
    /\ IdleNorm
    /\ procs = <<>>
    /\ scope \in Scopes
    /\ store = [c \in Collections |-> <<>>]
    /\ nextId = 0
    /\ req = NoRequest
    /\ resp = NoResponse

AdminNext ==
    \E kind \in AdminKinds \cap scope :
        \/ \E body \in Bodies(kind), fault \in BOOLEAN : CreateEntity(kind, body, fault)
        \/ \E key \in KeysOf(kind), fault \in BOOLEAN : GetEntity(kind, key, fault)
        \/ \E key \in KeysOf(kind), body \in Bodies(kind), fault \in BOOLEAN :
              UpdateEntity(kind, key, body, fault)
        \/ \E key \in KeysOf(kind), fault1 \in BOOLEAN, fault2 \in BOOLEAN :
              DeleteEntity(kind, key, fault1, fault2)
        \/ \E fault \in BOOLEAN : ListEntities(kind, fault)

MainNext ==
    \E kind \in MainKinds \cap scope :
        \/ \E body \in Bodies(kind), fault \in BOOLEAN : MainCreate(kind, body, fault)
        \/ \E id \in IdStrings, fault \in BOOLEAN : MainGet(kind, id, fault)
        \/ \E id \in IdStrings, body \in Bodies(kind), fault \in BOOLEAN :
              MainUpdate(kind, id, body, fault)
        \/ \E id \in IdStrings, fault \in BOOLEAN : MainDelete(kind, id, fault)

Next == (AdminNext \/ MainNext) /\ UNCHANGED <<nvars, scope, procs>>

Spec == Init /\ [][Next]_vars

(***************************************************************************)
(* The normalization as a state machine: a call of                         *)
(* convert_objectid_to_str on an input, and a repeated call on the same    *)
(* input.                                                                  *)
(***************************************************************************)
NormInit ==
    /\ IdleDb
    /\ nobj \in NormInputs
    /\ nres = NoValue
    /\ nres2 = NoValue
    /\ npc = "input"

Normalize ==
    /\ npc = "input"
    /\ nres' = convert_objectid_to_str(nobj)
    /\ npc' = "done"
    /\ UNCHANGED <<nobj, nres2>>

NormalizeAgain ==
    /\ npc = "done"
    /\ nres2' = convert_objectid_to_str(nobj)
    /\ npc' = "again"
    /\ UNCHANGED <<nobj, nres>>

NormNext == (Normalize \/ NormalizeAgain) /\ UNCHANGED dbvars

SpecNorm == NormInit /\ [][NormNext]_vars

(***************************************************************************)
(* Claims about the normalization, checked under SpecNorm.                 *)
(***************************************************************************)
IsBase64Of(b, out) ==
    /\ out = VStr(b64encode(b))
    /\ Len(Val(out)) = 4 * ((Len(b) + 2) \div 3)
    /\ b64decode(Val(out)) = [ok |-> TRUE, v |-> b]

\* Every byte sequence of `in` that is not valid UTF-8 stands in `out`, at the same
\* position, as its base64 text.
RECURSIVE NonUtf8AsBase64(_, _)
NonUtf8AsBase64(in, out) ==
    IF Tag(in) = "dict" THEN
        /\ Tag(out) = "dict"
        /\ DOMAIN Val(out) = DOMAIN Val(in)
        /\ \A key \in DOMAIN Val(in) : NonUtf8AsBase64(Val(in)[key], Val(out)[key])
    ELSE IF Tag(in) = "list" THEN
        /\ Tag(out) = "list"
        /\ Len(Val(out)) = Len(Val(in))
        /\ \A i \in 1..Len(Val(in)) : NonUtf8AsBase64(Val(in)[i], Val(out)[i])
    ELSE (Tag(in) = "bytes" /\ ~Utf8Valid(Val(in))) => IsBase64Of(Val(in), out)

\* C1: a byte sequence that is not valid UTF-8 is rendered by the read-path
\* normalization as its base64 text, wherever it stands in the document, and a
\* repeated call on the same input gives the same output.
C1_NonUtf8BytesAsBase64 ==
    /\ npc # "input" => NonUtf8AsBase64(nobj, nres)
    /\ npc = "again" => nres2 = nres

C1_Witness ==
    /\ npc = "again"
    /\ nobj = VBytes(<<255, 254>>)
    /\ nres = VStr(<<47, 47, 52, 61>>)
    /\ nres2 = nres

\* Every byte sequence of `in` that is valid UTF-8 stands in `out`, at the same
\* position, as its decoded text.
RECURSIVE Utf8AsText(_, _)
Utf8AsText(in, out) ==
    IF Tag(in) = "dict" THEN
        \A key \in DOMAIN Val(in) : Utf8AsText(Val(in)[key], Val(out)[key])
    ELSE IF Tag(in) = "list" THEN
        \A i \in 1..Len(Val(in)) : Utf8AsText(Val(in)[i], Val(out)[i])
    ELSE (Tag(in) = "bytes" /\ Utf8Valid(Val(in))) => out = VStr(Utf8Decode(Val(in)))

\* C2: a byte sequence that is valid UTF-8 is rendered by the read-path
\* normalization as its decoded text, not as base64.
C2_Utf8BytesAsText == npc # "input" => Utf8AsText(nobj, nres)

IsHexOf(id, out) ==
    /\ out = VStr(hex(id))
    /\ Len(Val(out)) = 2 * Len(id)
    /\ \A i \in 1..Len(Val(out)) : HexVal(Val(out)[i]) >= 0
    /\ unhex(Val(out)) = id

\* Every identifier that is a value of a mapping of `in` stands in `out` as its hex.
RECURSIVE OidValuesAsHex(_, _)
OidValuesAsHex(in, out) ==
    IF Tag(in) = "dict" THEN
        /\ Tag(out) = "dict"
        /\ DOMAIN Val(out) = DOMAIN Val(in)
        /\ \A key \in DOMAIN Val(in) :
              IF Tag(Val(in)[key]) = "oid"
              THEN IsHexOf(Val(Val(in)[key]), Val(out)[key])
              ELSE OidValuesAsHex(Val(in)[key], Val(out)[key])
    ELSE IF Tag(in) = "list" THEN
        /\ Tag(out) = "list"
        /\ Len(Val(out)) = Len(Val(in))
        /\ \A i \in 1..Len(Val(in)) : OidValuesAsHex(Val(in)[i], Val(out)[i])
    ELSE TRUE

\* C3: an identifier held as a value of a document mapping is rendered as its
\* lowercase hex; the rendering is stable across calls, and two different
\* identifiers of one mapping never render to the same string.
C3_OidValueAsHex ==
    /\ npc # "input" => OidValuesAsHex(nobj, nres)
    /\ npc = "again" => nres2 = nres
    /\ (npc # "input" /\ Tag(nobj) = "dict") =>
          \A k1 \in DOMAIN Val(nobj), k2 \in DOMAIN Val(nobj) :
              (/\ Tag(Val(nobj)[k1]) = "oid"
               /\ Tag(Val(nobj)[k2]) = "oid"
               /\ Val(nres)[k1] = Val(nres)[k2]) => Val(nobj)[k1] = Val(nobj)[k2]

C3_Witness ==
    /\ npc = "again"
    /\ Tag(nobj) = "dict"
    /\ DOMAIN Val(nobj) = {"a", "b"}
    /\ Tag(Val(nobj)["a"]) = "oid"
    /\ Tag(Val(nobj)["b"]) = "oid"
    /\ Val(nobj)["a"] # Val(nobj)["b"]
    /\ Val(nres)["a"] = VStr(hex(Val(Val(nobj)["a"])))
    /\ Val(nres)["a"] # Val(nres)["b"]

RECURSIVE HasRaw(_)
HasRaw(x) ==
    IF Tag(x) = "dict" THEN \E key \in DOMAIN Val(x) : HasRaw(Val(x)[key])
    ELSE IF Tag(x) = "list" THEN \E i \in 1..Len(Val(x)) : HasRaw(Val(x)[i])
    ELSE Tag(x) \in {"oid", "bytes"}

\* C4: the output of convert_objectid_to_str holds no raw identifier and no raw
\* byte sequence at any position of the document tree.
C4_NoRawIdentifier == npc # "input" => ~HasRaw(nres)

(***************************************************************************)
(* Order creation with the two reference fields in the payload, as base64  *)
(* text or as raw bytes (a Binary), and the read of the stored order.      *)
(***************************************************************************)
RefValues ==
    {VStr(b64encode(<<1, 2, 3>>)), VStr(b64encode(<<255, 254>>)),
     VBytes(<<1, 2, 3>>), VBytes(<<255, 254>>)}

OrderBodies ==
    LET base == {FullBody("orders", k, 1) : k \in KeyIds}
    IN  base
        \cup {b @@ ("restaurants_id" :> r) : b \in base, r \in RefValues}
        \cup {b @@ ("address_id" :> r) : b \in base, r \in RefValues}
        \cup {b @@ ("restaurants_id" :> r) @@ ("address_id" :> a) :
                b \in base, r \in RefValues, a \in RefValues}

OrderInit ==
    /\ IdleNorm
    /\ procs = <<>>
    /\ scope = {"orders"}
    /\ store = [c \in Collections |-> <<>>]
    /\ nextId = 0
    /\ req = NoRequest
    /\ resp = NoResponse

OrderNext ==
    /\ \/ \E body \in OrderBodies, fault \in BOOLEAN : CreateEntity("orders", body, fault)
       \/ \E key \in KeysOf("orders"), fault \in BOOLEAN : GetEntity("orders", key, fault)
    /\ UNCHANGED <<nvars, scope, procs>>

SpecOrder == OrderInit /\ [][OrderNext]_vars

\* The document the last create stored.
LastStored == store[req.kind][Len(store[req.kind])]

\* C5: an order created with a reference field given as base64 text is stored with
\* that field as the decoded raw bytes; given as raw bytes, it is stored unchanged.
C5_RefFieldStoredAsBytes ==
    (req.op = "create" /\ req.kind = "orders" /\ resp.status = 200) =>
        \A f \in RefFields \cap DOMAIN req.body :
            /\ f \in DOMAIN LastStored
            /\ Tag(req.body[f]) = "str" =>
                  LastStored[f] = VBytes(b64decode(Val(req.body[f])).v)
            /\ Tag(req.body[f]) = "bytes" => LastStored[f] = req.body[f]

(***************************************************************************)
(* The list routes over a collection already holding up to MaxListDocs     *)
(* documents: those of admin.py, and get_all_users of main.py over the     *)
(* users that /admin/register stored.                                      *)
(***************************************************************************)
MaxListDocs == 250
UsersCap == 100

UserDoc(i) ==
    ("full_name" :> VStr(<<85>>)) @@ ("email" :> VStr(<<117, 48 + (i % 10)>>))
    @@ ("password" :> VStr(<<36>>)) @@ ("_id" :> VOid(NewObjectId(i)))

StoredDoc(kind, i) ==
    IF kind = "users" THEN UserDoc(i)
    ELSE FullBody(kind, 1 + (i % 2), 1) @@ ("_id" :> VOid(NewObjectId(i)))

\* main.py get_all_users: to_list(100), 404 when there is no user, and the
\* response model's two fields of each.
MainListUsers(fault) ==
    LET users == to_list(store["users"], UsersCap)
    IN  /\ req' = Request("list", "users", NoValue, <<>>, <<fault, FALSE>>)
        /\ resp' = IF fault THEN Response(500, "internal_error", NoValue)
                   ELSE IF Len(users) = 0 THEN Response(404, "no_users", NoValue)
                   ELSE Response(200, "list",
                            VList([i \in 1..Len(users) |->
                                VDict(("full_name" :> users[i]["full_name"])
                                      @@ ("email" :> users[i]["email"]))]))
        /\ UNCHANGED <<store, nextId>>

ListInit ==
    /\ IdleNorm
    /\ procs = <<>>
    /\ scope \in {{kind} : kind \in AdminKinds \cup {"users"}}
    /\ \E n \in 0..MaxListDocs :
          /\ nextId = n
          /\ store = [c \in Collections |->
                        IF c \in scope THEN [i \in 1..n |-> StoredDoc(c, i)] ELSE <<>>]
    /\ req = NoRequest
    /\ resp = NoResponse

ListNext ==
    /\ \/ \E kind \in AdminKinds \cap scope, fault \in BOOLEAN : ListEntities(kind, fault)
       \/ \E fault \in BOOLEAN : "users" \in scope /\ MainListUsers(fault)
    /\ UNCHANGED <<nvars, scope, procs>>

SpecList == ListInit /\ [][ListNext]_vars

Listed == req.op = "list" /\ ~req.faults[1]

\* C9: a list request on a collection holding n documents returns exactly
\* min(n, 200) normalized documents, on every list route of every entity kind.
C9_ListReturnsMin200 ==
    Listed =>
        /\ resp.status = 200
        /\ Len(Val(resp.body)) = Min(Len(store[req.kind]), 200)

\* C9 as amended: the five list routes of admin.py return the first min(n, 200)
\* documents, each normalized; get_all_users of main.py returns min(n, 100)
\* records, and 404 when there is no user.
C9_ListCaps ==
    Listed =>
        LET docs == store[req.kind]
            n == Len(docs)
        IN  IF req.kind \in AdminKinds THEN
                /\ resp.status = 200
                /\ Len(Val(resp.body)) = Min(n, 200)
                /\ \A i \in 1..Min(n, 200) :
                      /\ ~HasRaw(Val(resp.body)[i])
                      /\ Val(Val(resp.body)[i])[KeyField(req.kind)] = docs[i][KeyField(req.kind)]
                      /\ Val(Val(resp.body)[i])["_id"] = VStr(hex(Val(docs[i]["_id"])))
            ELSE IF n = 0 THEN resp.status = 404
            ELSE resp.status = 200 /\ Len(Val(resp.body)) = Min(n, 100)

C9_Witness ==
    /\ Listed
    /\ req.kind = "Branch"
    /\ Len(store["Branch"]) = 250
    /\ resp.status = 200
    /\ Len(Val(resp.body)) = 200

(***************************************************************************)
(* Claims about the CRUD routes, checked under Spec. A step of Spec handles *)
(* one request: req' is the request, store the collection before it and    *)
(* store' the collection after it.                                         *)
(***************************************************************************)
KeyCount(docs, field, value) ==
    Cardinality({i \in 1..Len(docs) : Matches(docs[i], field, value)})

\* C6: a PUT whose set of provided fields is empty is rejected with status 400,
\* "No data provided to update".
C6_EmptyUpdateRejected400 ==
    (req.op = "update" /\ DOMAIN req.body = {}) =>
        (resp.status = 400 /\ resp.detail = "no_data")

\* C7: a PUT that carries a non-empty subset of the entity's fields is accepted,
\* and on the matched document it replaces exactly the fields of the payload,
\* leaving every other field as it was.
C7_PartialUpdateReplacesGivenFields ==
    [][(/\ req'.op = "update"
        /\ req'.kind \in AdminKinds
        /\ DOMAIN req'.body # {}
        /\ ~req'.faults[1])
       => LET kind == req'.kind
              i == FirstMatch(store[kind], KeyField(kind), req'.key)
          IN  /\ resp'.status # 422
              /\ i # 0 =>
                    store'[kind][i] =
                        [f \in DOMAIN store[kind][i] |->
                            IF f \in DOMAIN req'.body THEN req'.body[f]
                            ELSE store[kind][i][f]]]_vars

\* The key of a DELETE names no document of its collection (for a route of
\* main.py: the string is an identifier, no document has it, and the store
\* answers).
DeleteOfAbsentKey ==
    /\ req'.op = "delete"
    /\ IF req'.kind \in AdminKinds
       THEN FirstMatch(store[req'.kind], KeyField(req'.kind), req'.key) = 0
       ELSE /\ ParseObjectId(Val(req'.key)).ok
            /\ FirstMatch(store[req'.kind], "_id", ParseObjectId(Val(req'.key)).v) = 0
            /\ ~req'.faults[1]

C10_DuplicateKeysCreateDuplicates ==
    [][(req'.op = "create" /\ req'.kind \in AdminKinds)
       => LET kind == req'.kind
              docs == store'[kind]
          IN  /\ (Validates(kind, req'.body) /\ ~req'.faults[1]) => resp'.status = 200
              /\ \A k \in KeysOf(kind) :
                    KeyCount(docs, KeyField(kind), k) =
                        KeyCount(store[kind], KeyField(kind), k)
                        + (IF resp'.status = 200 /\ req'.body[KeyField(kind)] = k
                           THEN 1 ELSE 0)
              /\ \A i \in 1..Len(docs), j \in 1..Len(docs) :
                    i # j => docs[i]["_id"] # docs[j]["_id"]]_vars

C10_Witness ==
    /\ req.op = "create"
    /\ req.kind \in AdminKinds
    /\ resp.status = 200
    /\ Len(store[req.kind]) = 2
    /\ KeyCount(store[req.kind], KeyField(req.kind), req.body[KeyField(req.kind)]) = 2
    /\ store[req.kind][1]["_id"] # store[req.kind][2]["_id"]

\* C11: a successful create whose key k no stored document has stores a document
\* carrying every field of the payload with the value sent; a GET by a key that
\* exactly one document has answers 200 with that document's fields and values,
\* the key among them equal to k (an integer stays an integer), and its _id as
\* text; a GET by a key no document has answers 404.
C11_CreateThenGetRoundTrip ==
    [][(req'.kind \in AdminKinds /\ ~req'.faults[1])
       => LET kind == req'.kind
              field == KeyField(kind)
          IN  /\ (/\ req'.op = "create"
                  /\ resp'.status = 200
                  /\ KeyCount(store[kind], field, req'.body[field]) = 0)
                 => LET doc == store'[kind][Len(store'[kind])]
                    IN  /\ Len(store'[kind]) = Len(store[kind]) + 1
                        /\ \A f \in DOMAIN req'.body : doc[f] = req'.body[f]
                        /\ KeyCount(store'[kind], field, req'.body[field]) = 1
              /\ (req'.op = "get" /\ KeyCount(store[kind], field, req'.key) = 1)
                 => LET doc == store[kind][FirstMatch(store[kind], field, req'.key)]
                    IN  /\ resp'.status = 200
                        /\ DOMAIN Val(resp'.body) = DOMAIN doc
                        /\ \A f \in DOMAIN doc \ {"_id"} : Val(resp'.body)[f] = doc[f]
                        /\ Val(resp'.body)[field] = req'.key
                        /\ Val(resp'.body)["_id"] = VStr(hex(Val(doc["_id"])))
              /\ (req'.op = "get" /\ KeyCount(store[kind], field, req'.key) = 0)
                 => (resp'.status = 404 /\ resp'.detail = "not_found")]_vars

\* GET /branch/1 answered with the branch created under key 1.
C11_Witness ==
    /\ req.op = "get"
    /\ req.kind = "Branch"
    /\ req.key = VInt(1)
    /\ resp.status = 200
    /\ Val(resp.body)["branch_id"] = VInt(1)
    /\ KeyCount(store["Branch"], "branch_id", VInt(1)) = 1

\* C12: a PUT whose payload passes validation answers success exactly when the
\* store modified a document; it answers 404 when no document has the key, and
\* 400 when the document exists and the payload changes none of its fields, for
\* every entity kind.
C12_UpdateStatusByOutcome ==
    [][(/\ req'.op = "update"
        /\ req'.kind \in AdminKinds
        /\ Validates(req'.kind, req'.body)
        /\ ~req'.faults[1])
       => LET kind == req'.kind
              i == FirstMatch(store[kind], KeyField(kind), req'.key)
          IN  /\ resp'.status = 200 <=> store'[kind] # store[kind]
              /\ i = 0 => resp'.status = 404
              /\ (i # 0 /\ store'[kind] = store[kind]) => resp'.status = 400]_vars

\* C13: a storage fault during find_one is answered like an absent document: GET
\* answers 404 and DELETE answers the entity's not-found status, also when a
\* document with the key is stored; a storage fault during the insert of a valid
\* payload is answered 500; the collections are unchanged in each case.
C13_FaultsSwallowedOrSurfaced ==
    [][(req'.kind \in AdminKinds /\ req'.faults[1])
       => /\ store' = store
          /\ req'.op = "get" =>
                resp' = Response(404, "not_found", NoValue)
          /\ req'.op = "delete" =>
                resp' = Response(DeleteNotFoundStatus(req'.kind), "not_found", NoValue)
          /\ (req'.op = "create" /\ Validates(req'.kind, req'.body)) =>
                resp' = Response(500, "internal_error", NoValue)]_vars

\* A GET answered 404, under a storage fault, for a key that a stored document has.
C13_Witness ==
    /\ req.op = "get"
    /\ req.kind \in AdminKinds
    /\ req.faults[1]
    /\ resp.status = 404
    /\ KeyCount(store[req.kind], KeyField(req.kind), req.key) > 0

(***************************************************************************)
(* The routes of one entity kind over a store whose other collections hold *)
(* documents: two branches, each naming a restaurant as its owner, and one *)
(* document in every other collection.                                     *)
(***************************************************************************)
FrameDocs(c) ==
    IF c = "Branch"
    THEN [k \in 1..2 |->
            [FullBody("Branch", k, 1) EXCEPT !["restaurants_id"] = VStr(<<48 + k>>)]
            @@ ("_id" :> VOid(NewObjectId(100 + k)))]
    ELSE <<StoredDoc(c, 101)>>

FrameInit ==
    /\ IdleNorm
    /\ procs = <<>>
    /\ scope \in Scopes
    /\ store = [c \in Collections |-> IF c \in scope THEN <<>> ELSE FrameDocs(c)]
    /\ nextId = 0
    /\ req = NoRequest
    /\ resp = NoResponse

SpecFrame == FrameInit /\ [][Next]_vars

\* C14: a request changes no collection but the one of its own entity kind; so a
\* DELETE of a restaurant leaves every branch, those naming the deleted
\* restaurant as owner included, and every other collection as it was.
C14_OnlyOwnCollectionChanges ==
    [][\A c \in Collections : c # req'.kind => store'[c] = store[c]]_vars

\* A restaurant was deleted while a stored branch names it as its owner.
C14_Witness ==
    /\ req.op = "delete"
    /\ req.kind = "restaurants"
    /\ resp.status = 200
    /\ store["restaurants"] = <<>>
    /\ \E i \in 1..Len(store["Branch"]) :
          /\ Tag(req.key) = "int"
          /\ store["Branch"][i]["restaurants_id"] = VStr(<<48 + Val(req.key)[1]>>)

(***************************************************************************)
(* Requests in progress. A handler that awaits more than one storage call  *)
(* runs as one step per call, and other requests may run between its       *)
(* steps. A request records its position (pc), the storage calls it has    *)
(* issued, in order, whether one of them met a storage fault, and its      *)
(* answer.                                                                 *)
(***************************************************************************)
Proc(op, kind, key, body, pc, calls, faulted, status, detail) ==
    [op |-> op, kind |-> kind, key |-> key, body |-> body, pc |-> pc,
     calls |-> calls, faulted |-> faulted, status |-> status, detail |-> detail]

IdleProc == Proc("none", "", NoValue, <<>>, "idle", <<>>, FALSE, 0, "")

Called(proc, call, fault) ==
    [proc EXCEPT !.calls = Append(@, call), !.faulted = @ \/ fault]

Answered(proc, status, detail) ==
    [proc EXCEPT !.pc = "done", !.status = status, !.detail = detail]

\* delete_branch, delete_user, delete_menu_item, delete_order, delete_restaurants
\* up to the first await: db.find_one, and the not-found answer.
DeleteFind(p, kind, key, fault) ==
    /\ procs[p].pc = "idle"
    /\ LET found == find_one(store[kind], KeyField(kind), key, fault)
           proc == Called(Proc("delete", kind, key, <<>>, "start", <<>>, FALSE, 0, ""),
                          "find_one", fault)
       IN  procs' = [procs EXCEPT ![p] =
                        IF found = NoValue
                        THEN Answered(proc, DeleteNotFoundStatus(kind), "not_found")
                        ELSE [proc EXCEPT !.pc = "delete_one"]]
    /\ UNCHANGED <<store, nextId, req, resp>>

DeleteRemove_Retried(p, fault) ==
    /\ procs[p].pc = "delete_one"
    /\ LET proc == procs[p]
           result == delete_one(store[proc.kind], KeyField(proc.kind), proc.key, fault)
           once == Called(proc, "delete_one", fault)
       IN  /\ store' = [store EXCEPT ![proc.kind] = result.docs]
           /\ procs' = [procs EXCEPT ![p] =
                            IF result.ok /\ result.deleted_count > 0
                            THEN Answered(once, 200, "deleted")
                            ELSE Answered(Called(once, "delete_one", fault), 400, "delete_failed")]
    /\ UNCHANGED <<nextId, req, resp>>

\* The rest of the delete handlers: db.delete_one, and the answer by deleted_count.
DeleteRemove(p, fault) ==
    /\ procs[p].pc = "delete_one"
    /\ LET proc == procs[p]
           result == delete_one(store[proc.kind], KeyField(proc.kind), proc.key, fault)
       IN  /\ store' = [store EXCEPT ![proc.kind] = result.docs]
           /\ procs' = [procs EXCEPT ![p] =
                            IF result.ok /\ result.deleted_count > 0
                            THEN Answered(Called(proc, "delete_one", fault), 200, "deleted")
                            ELSE Answered(Called(proc, "delete_one", fault), 400, "delete_failed")]
    /\ UNCHANGED <<nextId, req, resp>>

\* main.py User payloads: two emails, the retyped password equal or not, the
\* terms accepted or not.
RegisterBodies ==
    {[full_name |-> VStr(<<85>>), email |-> VStr(<<e>>), password |-> VStr(<<112>>),
      retype_password |-> VStr(<<r>>), agree_terms |-> a] :
        e \in {97, 98}, r \in {112, 113}, a \in BOOLEAN}

\* hash_password: a bcrypt hash, text that starts with "$" (the salt is left out).
hash_password(password) == VStr(<<36>> \o Val(password))

\* register up to its first await: the two payload checks, then
\* users_collection.find_one by email. A storage fault is not caught here.
RegisterFind(p, body, fault) ==
    /\ procs[p].pc = "idle"
    /\ LET start == Proc("register", "users", body.email, body, "start", <<>>, FALSE, 0, "")
           looked == Called(start, "find_one", fault)
       IN  procs' = [procs EXCEPT ![p] =
                        IF body.password # body.retype_password
                        THEN Answered(start, 400, "passwords_mismatch")
                        ELSE IF ~body.agree_terms
                        THEN Answered(start, 400, "terms_not_agreed")
                        ELSE IF fault
                        THEN Answered(looked, 500, "internal_error")
                        ELSE IF FirstMatch(store["users"], "email", body.email) # 0
                        THEN Answered(looked, 400, "email_registered")
                        ELSE [looked EXCEPT !.pc = "insert_one"]]
    /\ UNCHANGED <<store, nextId, req, resp>>

\* The rest of register: users_collection.insert_one(new_user). The returned
\* {"message": ...} has neither field of the route's response_model
\* (UserResponse), so the framework answers 500 after the insert.
RegisterInsert(p, fault) ==
    /\ procs[p].pc = "insert_one"
    /\ LET proc == procs[p]
           new_user == ("full_name" :> proc.body.full_name)
                       @@ ("email" :> proc.body.email)
                       @@ ("password" :> hash_password(proc.body.password))
       IN  IF fault THEN
               /\ procs' = [procs EXCEPT ![p] =
                               Answered(Called(proc, "insert_one", TRUE), 500, "internal_error")]
               /\ UNCHANGED <<store, nextId>>
           ELSE
               /\ nextId' = nextId + 1
               /\ store' = [store EXCEPT !["users"] = InsertDoc(@, new_user, nextId + 1)]
               /\ procs' = [procs EXCEPT ![p] =
                               Answered(Called(proc, "insert_one", FALSE), 500, "response_invalid")]
    /\ UNCHANGED <<req, resp>>

(***************************************************************************)
(* One client sending request after request to the routes of one entity    *)
(* kind (or to /admin/register and /admin/users), each request recorded    *)
(* with the storage calls its handler issues. The handlers with one await  *)
(* are one step; the admin.py deletes and register are two.                *)
(***************************************************************************)
Served(op, kind, calls) ==
    Proc(op, kind, NoValue, <<>>, "done", calls, req'.faults[1] /\ calls # <<>>,
         resp'.status, resp'.detail)

ServeCreate(p, kind, body, fault) ==
    /\ procs[p].pc = "idle"
    /\ CreateEntity(kind, body, fault)
    /\ procs' = [procs EXCEPT ![p] =
                    Served("create", kind,
                           IF Validates(kind, body) THEN <<"insert_one">> ELSE <<>>)]

ServeGet(p, kind, key, fault) ==
    /\ procs[p].pc = "idle"
    /\ GetEntity(kind, key, fault)
    /\ procs' = [procs EXCEPT ![p] = Served("get", kind, <<"find_one">>)]

ServeUpdate(p, kind, key, body, fault) ==
    /\ procs[p].pc = "idle"
    /\ UpdateEntity(kind, key, body, fault)
    /\ procs' = [procs EXCEPT ![p] =
                    Served("update", kind,
                           IF Validates(kind, body) /\ DOMAIN DictExcludeUnset(kind, body) # {}
                           THEN <<"update_one">> ELSE <<>>)]

ServeList(p, kind, fault) ==
    /\ procs[p].pc = "idle"
    /\ ListEntities(kind, fault)
    /\ procs' = [procs EXCEPT ![p] = Served("list", kind, <<"find">>)]

ServeMainCreate(p, kind, body, fault) ==
    /\ procs[p].pc = "idle"
    /\ MainCreate(kind, body, fault)
    /\ procs' = [procs EXCEPT ![p] =
                    Served("create", kind,
                           IF Validates(kind, body) THEN <<"insert_one">> ELSE <<>>)]

ServeMainGet(p, kind, id, fault) ==
    /\ procs[p].pc = "idle"
    /\ MainGet(kind, id, fault)
    /\ procs' = [procs EXCEPT ![p] =
                    Served("get", kind,
                           IF ParseObjectId(id).ok THEN <<"find_one">> ELSE <<>>)]

ServeMainUpdate(p, kind, id, body, fault) ==
    /\ procs[p].pc = "idle"
    /\ MainUpdate(kind, id, body, fault)
    /\ procs' = [procs EXCEPT ![p] =
                    Served("update", kind,
                           IF Validates(kind, body) /\ ParseObjectId(id).ok
                           THEN <<"find_one_and_update">> ELSE <<>>)]

ServeMainDelete(p, kind, id, fault) ==
    /\ procs[p].pc = "idle"
    /\ MainDelete(kind, id, fault)
    /\ procs' = [procs EXCEPT ![p] =
                    Served("delete", kind,
                           IF ParseObjectId(id).ok THEN <<"delete_one">> ELSE <<>>)]

ServeListUsers(p, fault) ==
    /\ procs[p].pc = "idle"
    /\ MainListUsers(fault)
    /\ procs' = [procs EXCEPT ![p] = Served("list", "users", <<"find">>)]

\* The client has its answer and sends its next request.
NextRequest(p) ==
    /\ procs[p].pc = "done"
    /\ procs' = [procs EXCEPT ![p] = IdleProc]
    /\ UNCHANGED <<store, nextId, req, resp>>

StepsInit ==
    /\ IdleNorm
    /\ scope \in Scopes \cup {{"users"}}
    /\ store = [c \in Collections |-> <<>>]
    /\ nextId = 0
    /\ req = NoRequest
    /\ resp = NoResponse
    /\ procs = <<IdleProc>>

StepsAdmin(p) ==
    \E kind \in AdminKinds \cap scope :
        \/ \E body \in Bodies(kind), fault \in BOOLEAN : ServeCreate(p, kind, body, fault)
        \/ \E key \in KeysOf(kind), fault \in BOOLEAN : ServeGet(p, kind, key, fault)
        \/ \E key \in KeysOf(kind), body \in Bodies(kind), fault \in BOOLEAN :
              ServeUpdate(p, kind, key, body, fault)
        \/ \E key \in KeysOf(kind), fault \in BOOLEAN : DeleteFind(p, kind, key, fault)
        \/ \E fault \in BOOLEAN : ServeList(p, kind, fault)

StepsMain(p) ==
    \/ \E kind \in MainKinds \cap scope :
        \/ \E body \in Bodies(kind), fault \in BOOLEAN : ServeMainCreate(p, kind, body, fault)
        \/ \E id \in IdStrings, fault \in BOOLEAN : ServeMainGet(p, kind, id, fault)
        \/ \E id \in IdStrings, body \in Bodies(kind), fault \in BOOLEAN :
              ServeMainUpdate(p, kind, id, body, fault)
        \/ \E id \in IdStrings, fault \in BOOLEAN : ServeMainDelete(p, kind, id, fault)
    \/ \E body \in RegisterBodies, fault \in BOOLEAN :
          "users" \in scope /\ RegisterFind(p, body, fault)
    \/ \E fault \in BOOLEAN : "users" \in scope /\ ServeListUsers(p, fault)

StepsNext ==
    /\ \E p \in DOMAIN procs :
          \/ StepsAdmin(p)
          \/ StepsMain(p)
          \/ \E fault \in BOOLEAN : DeleteRemove(p, fault)
          \/ \E fault \in BOOLEAN : RegisterInsert(p, fault)
          \/ NextRequest(p)
    /\ UNCHANGED <<nvars, scope>>

SpecSteps == StepsInit /\ [][StepsNext]_vars

\* The storage calls one request may have issued by the time it is answered.
CallsOf(proc) ==
    IF proc.op = "delete" /\ proc.kind \in AdminKinds
    THEN {<<"find_one">>, <<"find_one", "delete_one">>}
    ELSE IF proc.op = "register"
    THEN {<<>>, <<"find_one">>, <<"find_one", "insert_one">>}
    ELSE IF proc.op = "create" THEN {<<>>, <<"insert_one">>}
    ELSE IF proc.op = "get" THEN {<<>>, <<"find_one">>}
    ELSE IF proc.op = "update" THEN {<<>>, <<"update_one">>, <<"find_one_and_update">>}
    ELSE IF proc.op = "delete" THEN {<<>>, <<"delete_one">>}
    ELSE {<<"find">>}

\* C15: every request issues a single storage operation.
C15_SingleStorageCall ==
    \A p \in DOMAIN procs : Len(procs[p].calls) <= 1

\* C15 as amended: a request issues one storage call, or none when it is rejected
\* before the store is reached, except that a DELETE of admin.py issues find_one
\* and then, only when a document was found, delete_one, and register issues
\* find_one and then, only when no user has the email, insert_one; no call is
\* issued twice by one request, and the second call is issued after the first.
C15_CallsPerRequest ==
    \A p \in DOMAIN procs :
        LET proc == procs[p]
        IN  /\ proc.pc = "done" => proc.calls \in CallsOf(proc)
            /\ \A i \in 1..Len(proc.calls), j \in 1..Len(proc.calls) :
                  i # j => proc.calls[i] # proc.calls[j]
            /\ proc.pc \in {"delete_one", "insert_one"} => proc.calls = <<"find_one">>
            /\ (proc.pc = "done" /\ proc.op = "delete" /\ proc.kind \in AdminKinds) =>
                  (proc.calls = <<"find_one">> <=> proc.detail = "not_found")
            /\ (proc.pc = "done" /\ proc.op = "register") =>
                  /\ proc.calls = <<>> <=>
                        proc.detail \in {"passwords_mismatch", "terms_not_agreed"}
                  /\ (proc.calls = <<"find_one">> /\ ~proc.faulted) <=>
                        proc.detail = "email_registered"

\* A DELETE that issued both of its calls and removed the document.
C15_Witness ==
    \E p \in DOMAIN procs :
        /\ procs[p].pc = "done"
        /\ procs[p].op = "delete"
        /\ procs[p].calls = <<"find_one", "delete_one">>
        /\ procs[p].status = 200

(***************************************************************************)
(* Concurrent requests: up to MaxRequests DELETE requests of one admin.py  *)
(* entity kind over a collection holding one document, under key 1, or as  *)
(* many /admin/register requests over an empty users collection. Each      *)
(* storage call is one atomic step; the steps of different requests        *)
(* interleave freely.                                                      *)
(***************************************************************************)
MaxRequests == 3

RaceInit ==
    /\ IdleNorm
    /\ scope \in {{kind} : kind \in AdminKinds \cup {"users"}}
    /\ store = [c \in Collections |->
                    IF c \in scope \cap AdminKinds THEN <<StoredDoc(c, 100)>> ELSE <<>>]
    /\ nextId = 0
    /\ req = NoRequest
    /\ resp = NoResponse
    /\ procs = [p \in 1..MaxRequests |-> IdleProc]

RaceNext ==
    /\ \E p \in DOMAIN procs :
          \/ \E kind \in AdminKinds \cap scope :
                \E key \in KeysOf(kind), fault \in BOOLEAN : DeleteFind(p, kind, key, fault)
          \/ \E fault \in BOOLEAN : DeleteRemove(p, fault)
          \/ \E body \in RegisterBodies, fault \in BOOLEAN :
                "users" \in scope /\ RegisterFind(p, body, fault)
          \/ \E fault \in BOOLEAN : RegisterInsert(p, fault)
    /\ UNCHANGED <<nvars, scope>>

SpecRace == RaceInit /\ [][RaceNext]_vars

\* The DELETE requests for the key of the stored document.
Racers(kind) ==
    {p \in DOMAIN procs : procs[p].op = "delete" /\ procs[p].key = KeyValue(kind, 1)}

\* Two or more DELETE requests for the stored document's key have all been
\* answered, none of them having met a storage fault.
RaceOver(kind) ==
    /\ Cardinality(Racers(kind)) >= 2
    /\ \A p \in Racers(kind) : procs[p].pc = "done" /\ ~procs[p].faulted

\* C16: of two or more concurrent DELETE requests for the key of one stored
\* document, exactly one answers success, the document is gone, and every other
\* one answers the entity's not-found response.
C16_LosersAnswerNotFound ==
    \A kind \in AdminKinds \cap scope :
        RaceOver(kind) =>
            /\ Cardinality({p \in Racers(kind) : procs[p].status = 200}) = 1
            /\ KeyCount(store[kind], KeyField(kind), KeyValue(kind, 1)) = 0
            /\ \A p \in Racers(kind) :
                  procs[p].status # 200 =>
                      /\ procs[p].detail = "not_found"
                      /\ procs[p].status = DeleteNotFoundStatus(kind)

\* C17: the users collection never holds two documents with the same email, and
\* a registration with mismatched passwords, unaccepted terms or an email already
\* registered answers 400 and inserts nothing.
C17_EmailsUnique ==
    /\ \A i \in 1..Len(store["users"]), j \in 1..Len(store["users"]) :
          i # j => store["users"][i]["email"] # store["users"][j]["email"]
    /\ \A p \in DOMAIN procs :
          LET proc == procs[p]
          IN  (/\ proc.op = "register"
               /\ proc.pc = "done"
               /\ \/ proc.body.password # proc.body.retype_password
                  \/ ~proc.body.agree_terms
                  \/ proc.detail = "email_registered")
              => (proc.status = 400 /\ \A i \in 1..Len(proc.calls) : proc.calls[i] # "insert_one")

====
